---- MODULE Spec2Model ----
(***************************************************************************)
(* Model of firefly_runtime/json_utils.py: the simplified JSONPath         *)
(* evaluator (json_path_get), its helpers (_parse_path_segments,           *)
(* _navigate_segment, _recursive_search) and the public operations built   *)
(* on it (firefly_json_get, firefly_json_exists, firefly_json_size,        *)
(* firefly_json_type).                                                     *)
(*                                                                         *)
(* Python values are tagged records.  A Python str is a sequence of        *)
(* one-character strings, so that startswith, slicing and the character    *)
(* loop of the segmenter are computed as the code computes them.  A dict   *)
(* is the sequence of its items in insertion order (the order of           *)
(* dict.values()).  JSON null is Python None: the code has one value,      *)
(* None, both for a found null and for "not found".  An exception that     *)
(* leaves a function is the value Raise(name).                             *)
(***************************************************************************)
EXTENDS Integers, Sequences, FiniteSets, TLC

\* data, path: the arguments of the call; op: the function called; result:
\* what it returned; frames: the calls made so far or in progress, with
\* their local variables; console: the terminal (lines typed, lines printed)
VARIABLES data, path, op, result, frames, console

vars == <<data, path, op, result, frames, console>>

---------------------------------------------------------------------------
(* Python values *)

None == [t |-> "None"]

PyBool(b) == [t |-> "bool", v |-> b]

PyInt(n) == [t |-> "int", v |-> n]

\* the float m * 10^-e, with m not divisible by 10 unless e = 0
PyFloat(m, e) == [t |-> "float", v |-> <<m, e>>]

PyStr(s) == [t |-> "str", v |-> s]

PyList(s) == [t |-> "list", v |-> s]

PyDict(items) == [t |-> "dict", v |-> items]

Item(key, value) == [k |-> key, val |-> value]

Raise(name) == [t |-> "raise", v |-> name]

TypeName(s) == [t |-> "typename", v |-> s]

Unset == [t |-> "unset"]

IsRaise(x) == x.t = "raise"

\* isinstance(x, str), isinstance(x, list), isinstance(x, dict)
IsStr(x) == x.t = "str"

IsList(x) == x.t = "list"

IsDict(x) == x.t = "dict"

\* isinstance(x, bool), isinstance(x, int), isinstance(x, float): bool is a
\* subclass of int, so a bool is an instance of int too
IsBool(x) == x.t = "bool"

IsInt(x) == x.t = "int" \/ x.t = "bool"

IsFloat(x) == x.t = "float"

\* len(x) of a str, a list or a dict
PyLen(x) == Len(x.v)

\* Python truth value of an optional str argument: `if path`, `not path`
Truthy(x) == IF x.t = "str" THEN Len(x.v) > 0 ELSE x.t # "None"

\* s.startswith(c), s.endswith(c) for a one-character c
StartsWith(s, c) == Len(s) > 0 /\ s[1] = c

EndsWith(s, c) == Len(s) > 0 /\ s[Len(s)] = c

\* s[1:]
DropFirst(s) == SubSeq(s, 2, Len(s))

\* s[1:-1]
Inner(s) == SubSeq(s, 2, Len(s) - 1)

\* key in d
HasKey(d, key) == \E i \in 1..Len(d.v) : d.v[i].k = key

\* d[key] for a key of d
DictAt(d, key) == d.v[CHOOSE i \in 1..Len(d.v) : d.v[i].k = key].val

\* d.get(key)
DictGet(d, key) == IF HasKey(d, key) THEN DictAt(d, key) ELSE None

---------------------------------------------------------------------------
(* int(index_str): Python's integer parsing of a str.  Surrounding         *)
(* whitespace is stripped, one sign is allowed, and the digits may be      *)
(* grouped by single underscores; anything else is a ValueError.  So is a  *)
(* text of more than MaxStrDigits digits (sys.int_info's                   *)
(* default_max_str_digits, the interpreter's limit on str to int).         *)

MaxStrDigits == 4300

Digits == <<"0", "1", "2", "3", "4", "5", "6", "7", "8", "9">>

IsDigit(c) == c \in {Digits[d] : d \in 1..Len(Digits)}

DigitVal(c) == (CHOOSE d \in 1..Len(Digits) : Digits[d] = c) - 1

IsSpace(c) == c = " "

RECURSIVE LStrip(_)
LStrip(s) ==
    IF Len(s) > 0 /\ IsSpace(s[1]) THEN LStrip(DropFirst(s)) ELSE s

RECURSIVE RStrip(_)
RStrip(s) ==
    IF Len(s) > 0 /\ IsSpace(s[Len(s)]) THEN RStrip(SubSeq(s, 1, Len(s) - 1)) ELSE s

\* digits, with single underscores only between two digits
WellFormedDigits(s) ==
    /\ Len(s) > 0
    /\ \A i \in 1..Len(s) :
         \/ IsDigit(s[i])
         \/ /\ s[i] = "_"
            /\ i > 1 /\ i < Len(s)
            /\ IsDigit(s[i - 1]) /\ IsDigit(s[i + 1])

RECURSIVE DigitsValue(_, _)
DigitsValue(s, acc) ==
    IF Len(s) = 0 THEN acc
    ELSE IF s[1] = "_" THEN DigitsValue(DropFirst(s), acc)
    ELSE DigitsValue(DropFirst(s), 10 * acc + DigitVal(s[1]))

int(s) ==
    LET stripped == RStrip(LStrip(s))
        signed == Len(stripped) > 0 /\ stripped[1] \in {"+", "-"}
        body == IF signed THEN DropFirst(stripped) ELSE stripped
    IN  IF ~WellFormedDigits(body) THEN Raise("ValueError")
        ELSE IF Len(body) > MaxStrDigits THEN Raise("ValueError")
        ELSE IF signed /\ stripped[1] = "-" THEN PyInt(0 - DigitsValue(body, 0))
        ELSE PyInt(DigitsValue(body, 0))

---------------------------------------------------------------------------
(* _parse_path_segments: one pass over the characters of the path          *)

\* variant: a dot ends the current segment even when nothing was collected
RECURSIVE ParseLoopKeepsEmpty(_, _, _, _, _)
ParseLoopKeepsEmpty(p, i, segments, current, in_brackets) ==
    IF i > Len(p) THEN
        IF Len(current) > 0 THEN Append(segments, current) ELSE segments
    ELSE LET char == p[i] IN
        IF char = "[" THEN
            ParseLoopKeepsEmpty(p, i + 1,
                      IF Len(current) > 0 THEN Append(segments, current) ELSE segments,
                      <<char>>, TRUE)
        ELSE IF char = "]" THEN
            ParseLoopKeepsEmpty(p, i + 1, Append(segments, Append(current, char)),
                                <<>>, FALSE)
        ELSE IF char = "." /\ ~in_brackets THEN
            ParseLoopKeepsEmpty(p, i + 1, Append(segments, current), <<>>, in_brackets)
        ELSE
            ParseLoopKeepsEmpty(p, i + 1, segments, Append(current, char), in_brackets)

RECURSIVE ParseLoop(_, _, _, _, _)
ParseLoop(p, i, segments, current, in_brackets) ==
    IF i > Len(p) THEN
        IF Len(current) > 0 THEN Append(segments, current) ELSE segments
    ELSE LET char == p[i] IN
        IF char = "[" THEN
            ParseLoop(p, i + 1,
                      IF Len(current) > 0 THEN Append(segments, current) ELSE segments,
                      <<char>>, TRUE)
        ELSE IF char = "]" THEN
            ParseLoop(p, i + 1, Append(segments, Append(current, char)), <<>>, FALSE)
        ELSE IF char = "." /\ ~in_brackets THEN
            ParseLoop(p, i + 1,
                      IF Len(current) > 0 THEN Append(segments, current) ELSE segments,
                      <<>>, in_brackets)
        ELSE
            ParseLoop(p, i + 1, segments, Append(current, char), in_brackets)

_parse_path_segments(p) == ParseLoop(p, 1, <<>>, <<>>, FALSE)

---------------------------------------------------------------------------
(* _navigate_segment: one step from a value along one segment              *)

\* IndexAccess without the lower bound: a negative index counts from the end
IndexAccessNegativeWraps(d, index_str) ==
    LET index == int(index_str) IN
    IF IsRaise(index) THEN index
    ELSE IF IsList(d) /\ index.v < PyLen(d) /\ 0 - index.v <= PyLen(d) THEN
        d.v[IF index.v < 0 THEN PyLen(d) + index.v + 1 ELSE index.v + 1]
    ELSE None

\* the try block: int(index_str), then the bounds test and the element
IndexAccess(d, index_str) ==
    LET index == int(index_str) IN
    IF IsRaise(index) THEN index
    ELSE IF IsList(d) /\ 0 <= index.v /\ index.v < PyLen(d) THEN d.v[index.v + 1]
    ELSE None

RECURSIVE _recursive_search(_, _)

\* _navigate_segment that falls back to a search of the whole subtree when
\* the object has no such key
NavigateSegmentFallbackSearch(d, segment) ==
    IF StartsWith(segment, "[") /\ EndsWith(segment, "]") THEN
        LET index_str == Inner(segment) IN
        IF index_str = <<"*">> THEN (IF IsList(d) THEN d ELSE None)
        ELSE LET got == IndexAccess(d, index_str) IN
             IF IsRaise(got) /\ got.v = "ValueError" THEN None ELSE got
    ELSE
        IF IsDict(d) /\ HasKey(d, segment) THEN DictAt(d, segment)
        ELSE _recursive_search(d, segment)

\* _navigate_segment whose wildcard fans out: it steps into the first
\* element of the list instead of returning the list
NavigateSegmentWildcardFansOut(d, segment) ==
    IF StartsWith(segment, "[") /\ EndsWith(segment, "]") THEN
        LET index_str == Inner(segment) IN
        IF index_str = <<"*">> THEN
            (IF IsList(d) /\ PyLen(d) > 0 THEN d.v[1] ELSE None)
        ELSE LET got == IndexAccess(d, index_str) IN
             IF IsRaise(got) /\ got.v = "ValueError" THEN None ELSE got
    ELSE
        IF IsDict(d) THEN DictGet(d, segment) ELSE None

\* variant: the wildcard on a dict gives a new list of the dict's values
NavigateSegmentWildcardCollects(d, segment) ==
    IF StartsWith(segment, "[") /\ EndsWith(segment, "]") THEN
        LET index_str == Inner(segment) IN
        IF index_str = <<"*">> THEN
            (IF IsList(d) THEN d
             ELSE IF IsDict(d)
                  THEN PyList([i \in 1..Len(d.v) |-> d.v[i].val])
             ELSE None)
        ELSE LET got == IndexAccess(d, index_str) IN
             IF IsRaise(got) /\ got.v = "ValueError" THEN None ELSE got
    ELSE
        IF IsDict(d) THEN DictGet(d, segment) ELSE None

_navigate_segment(d, segment) ==
    IF StartsWith(segment, "[") /\ EndsWith(segment, "]") THEN
        LET index_str == Inner(segment) IN
        IF index_str = <<"*">> THEN (IF IsList(d) THEN d ELSE None)
        ELSE LET got == IndexAccess(d, index_str) IN
             \* except ValueError: pass, then return None
             IF IsRaise(got) /\ got.v = "ValueError" THEN None ELSE got
    ELSE
        IF IsDict(d) THEN DictGet(d, segment) ELSE None

---------------------------------------------------------------------------
(* _recursive_search: depth-first search for a key                         *)

\* the for loop over data.values() or over the list, from position i
RECURSIVE SearchChildren(_, _, _)
SearchChildren(children, i, field) ==
    IF i > Len(children) THEN None
    ELSE LET r == _recursive_search(children[i], field) IN
         IF r # None THEN r ELSE SearchChildren(children, i + 1, field)

DictValues(d) == [i \in 1..Len(d.v) |-> d.v[i].val]

\* _recursive_search that searches the children before the object's own keys
RecursiveSearchChildrenFirst(d, field) ==
    IF IsDict(d) THEN
        LET r == SearchChildren(DictValues(d), 1, field) IN
        IF r # None THEN r
        ELSE IF HasKey(d, field) THEN DictAt(d, field)
        ELSE None
    ELSE IF IsList(d) THEN SearchChildren(d.v, 1, field)
    ELSE None

_recursive_search(d, field) ==
    IF IsDict(d) THEN
        IF HasKey(d, field) THEN DictAt(d, field)
        ELSE SearchChildren(DictValues(d), 1, field)
    ELSE IF IsList(d) THEN SearchChildren(d.v, 1, field)
    ELSE None

---------------------------------------------------------------------------
(* json_path_get: the path evaluator                                       *)

\* the loop without the early return: a segment that finds nothing is
\* skipped and the walk goes on from the value it had
RECURSIVE NavigateLoopSkipsNone(_, _, _)
NavigateLoopSkipsNone(segments, i, current) ==
    IF i > Len(segments) THEN current
    ELSE LET next == _navigate_segment(current, segments[i]) IN
         IF IsRaise(next) THEN next
         ELSE IF next = None THEN NavigateLoopSkipsNone(segments, i + 1, current)
         ELSE NavigateLoopSkipsNone(segments, i + 1, next)

\* for segment in segments: navigate, return None on the first None
RECURSIVE NavigateLoop(_, _, _)
NavigateLoop(segments, i, current) ==
    IF i > Len(segments) THEN current
    ELSE LET next == _navigate_segment(current, segments[i]) IN
         IF IsRaise(next) THEN next
         ELSE IF next = None THEN None
         ELSE NavigateLoop(segments, i + 1, next)

\* json_path_get that finds nothing when nothing follows the root marker
PathGetRootIsNone(d, p) ==
    IF ~Truthy(p) \/ ~StartsWith(p.v, "$") THEN None
    ELSE LET p1 == DropFirst(p.v)
             p2 == IF StartsWith(p1, ".") THEN DropFirst(p1) ELSE p1
         IN  IF Len(p2) = 0 THEN None
             ELSE IF StartsWith(p2, ".") THEN _recursive_search(d, DropFirst(p2))
             ELSE NavigateLoop(_parse_path_segments(p2), 1, d)

\* json_path_get that tests only `not path` and strips the first character
PathGetNoRootTest(d, p) ==
    IF ~Truthy(p) THEN None
    ELSE LET p1 == DropFirst(p.v)
             p2 == IF StartsWith(p1, ".") THEN DropFirst(p1) ELSE p1
         IN  IF Len(p2) = 0 THEN d
             ELSE IF StartsWith(p2, ".") THEN _recursive_search(d, DropFirst(p2))
             ELSE NavigateLoop(_parse_path_segments(p2), 1, d)

\* variant: the text after the two dots is segmented, its first segment is
\* searched for and the others navigate from what the search found
PathGetSearchThenNavigate(d, p) ==
    IF ~Truthy(p) \/ ~StartsWith(p.v, "$") THEN None
    ELSE LET p1 == DropFirst(p.v)
             p2 == IF StartsWith(p1, ".") THEN DropFirst(p1) ELSE p1
         IN  IF Len(p2) = 0 THEN d
             ELSE IF StartsWith(p2, ".")
                  THEN LET segments == _parse_path_segments(DropFirst(p2))
                       IN  IF Len(segments) = 0 THEN None
                           ELSE NavigateLoop(segments, 2,
                                    _recursive_search(d, segments[1]))
             ELSE NavigateLoop(_parse_path_segments(p2), 1, d)

\* variant: a path whose root marker is not followed by a dot finds nothing
PathGetDotRequired(d, p) ==
    IF ~Truthy(p) \/ ~StartsWith(p.v, "$") THEN None
    ELSE LET p1 == DropFirst(p.v)
         IN  IF Len(p1) = 0 THEN d
             ELSE IF ~StartsWith(p1, ".") THEN None
             ELSE LET p2 == DropFirst(p1)
                  IN  IF Len(p2) = 0 THEN d
                      ELSE IF StartsWith(p2, ".")
                           THEN _recursive_search(d, DropFirst(p2))
                      ELSE NavigateLoop(_parse_path_segments(p2), 1, d)

json_path_get(d, p) ==
    IF ~Truthy(p) \/ ~StartsWith(p.v, "$") THEN None
    ELSE LET p1 == DropFirst(p.v)
             p2 == IF StartsWith(p1, ".") THEN DropFirst(p1) ELSE p1
         IN  IF Len(p2) = 0 THEN d
             ELSE IF StartsWith(p2, ".") THEN _recursive_search(d, DropFirst(p2))
             ELSE NavigateLoop(_parse_path_segments(p2), 1, d)

---------------------------------------------------------------------------
(* json.loads: the standard library's JSON decoder, for texts made of      *)
(* null, true, false, integers, strings without escapes, arrays and        *)
(* objects, with optional whitespace.  A text it rejects raises            *)
(* JSONDecodeError.  An integer literal is converted by int(): one of more *)
(* than MaxStrDigits digits raises ValueError, which is no                 *)
(* JSONDecodeError.                                                        *)

Quote == "\""

Fail == [ok |-> FALSE, err |-> "JSONDecodeError"]

FailWith(name) == [ok |-> FALSE, err |-> name]

Ok(value, next) == [ok |-> TRUE, val |-> value, end |-> next]

RECURSIVE SkipWs(_, _)
SkipWs(s, i) == IF i <= Len(s) /\ IsSpace(s[i]) THEN SkipWs(s, i + 1) ELSE i

\* s[i:i+len(lit)] == lit
MatchAt(s, i, lit) ==
    i + Len(lit) - 1 <= Len(s) /\ SubSeq(s, i, i + Len(lit) - 1) = lit

\* the str whose opening quote is at i - 1
ScanString(s, i) ==
    IF \E j \in i..Len(s) : s[j] = Quote THEN
        LET j == CHOOSE j \in i..Len(s) :
                     s[j] = Quote /\ \A h \in i..(j - 1) : s[h] # Quote
        IN  Ok(PyStr(SubSeq(s, i, j - 1)), j + 1)
    ELSE Fail

\* the end of the run of digits that starts at i
DigitsEnd(s, i) ==
    LET others == {j \in i..Len(s) : ~IsDigit(s[j])} IN
    IF others = {} THEN Len(s) + 1
    ELSE CHOOSE j \in others : \A h \in others : j <= h

\* -?(0|[1-9][0-9]*)
ScanNumber(s, i) ==
    LET neg == s[i] = "-"
        start == IF neg THEN i + 1 ELSE i
    IN  IF start > Len(s) \/ ~IsDigit(s[start]) THEN Fail
        ELSE LET stop == IF s[start] = "0" THEN start + 1 ELSE DigitsEnd(s, start)
                 n == DigitsValue(SubSeq(s, start, stop - 1), 0)
             IN  IF stop - start > MaxStrDigits THEN FailWith("ValueError")
                 ELSE Ok(PyInt(IF neg THEN 0 - n ELSE n), stop)

\* dict(pairs): a repeated key keeps its first position and takes the last value
DictSet(items, key, value) ==
    IF \E i \in 1..Len(items) : items[i].k = key THEN
        [i \in 1..Len(items) |->
            IF items[i].k = key THEN Item(key, value) ELSE items[i]]
    ELSE Append(items, Item(key, value))

RECURSIVE scan_once(_, _)

\* the items of an array after "[" or after a comma
RECURSIVE ArrayItems(_, _, _)
ArrayItems(s, i, values) ==
    LET item == scan_once(s, i) IN
    IF ~item.ok THEN item
    ELSE LET j == SkipWs(s, item.end)
             got == Append(values, item.val)
         IN  IF j > Len(s) THEN Fail
             ELSE IF s[j] = "]" THEN Ok(PyList(got), j + 1)
             ELSE IF s[j] = "," THEN ArrayItems(s, SkipWs(s, j + 1), got)
             ELSE Fail

JSONArray(s, i) ==
    LET j == SkipWs(s, i) IN
    IF j <= Len(s) /\ s[j] = "]" THEN Ok(PyList(<<>>), j + 1)
    ELSE ArrayItems(s, j, <<>>)

\* the pairs of an object, i at the opening quote of a key
RECURSIVE ObjectItems(_, _, _)
ObjectItems(s, i, items) ==
    IF i > Len(s) \/ s[i] # Quote THEN Fail
    ELSE LET key == ScanString(s, i + 1) IN
    IF ~key.ok THEN Fail
    ELSE LET c == SkipWs(s, key.end) IN
    IF c > Len(s) \/ s[c] # ":" THEN Fail
    ELSE LET value == scan_once(s, SkipWs(s, c + 1)) IN
    IF ~value.ok THEN value
    ELSE LET j == SkipWs(s, value.end)
             got == DictSet(items, key.val.v, value.val)
         IN  IF j > Len(s) THEN Fail
             ELSE IF s[j] = "}" THEN Ok(PyDict(got), j + 1)
             ELSE IF s[j] = "," THEN ObjectItems(s, SkipWs(s, j + 1), got)
             ELSE Fail

JSONObject(s, i) ==
    LET j == SkipWs(s, i) IN
    IF j <= Len(s) /\ s[j] = "}" THEN Ok(PyDict(<<>>), j + 1)
    ELSE ObjectItems(s, j, <<>>)

scan_once(s, i) ==
    IF i > Len(s) THEN Fail
    ELSE IF s[i] = Quote THEN ScanString(s, i + 1)
    ELSE IF s[i] = "{" THEN JSONObject(s, i + 1)
    ELSE IF s[i] = "[" THEN JSONArray(s, i + 1)
    ELSE IF MatchAt(s, i, <<"n", "u", "l", "l">>) THEN Ok(None, i + 4)
    ELSE IF MatchAt(s, i, <<"t", "r", "u", "e">>) THEN Ok(PyBool(TRUE), i + 4)
    ELSE IF MatchAt(s, i, <<"f", "a", "l", "s", "e">>) THEN Ok(PyBool(FALSE), i + 5)
    ELSE ScanNumber(s, i)

json_loads(s) ==
    LET got == scan_once(s, SkipWs(s, 1)) IN
    IF ~got.ok THEN Raise(got.err)
    ELSE IF SkipWs(s, got.end) = Len(s) + 1 THEN got.val
    ELSE Raise("JSONDecodeError")

---------------------------------------------------------------------------
(* The public operations                                                   *)

firefly_json_get(d, p) ==
    IF IsStr(d) THEN
        LET parsed == json_loads(d.v) IN
        IF IsRaise(parsed) THEN
            (IF parsed.v = "JSONDecodeError" THEN None ELSE parsed)
        ELSE json_path_get(parsed, p)
    ELSE json_path_get(d, p)

firefly_json_exists(d, p) ==
    LET r == firefly_json_get(d, p) IN
    IF IsRaise(r) THEN r ELSE PyBool(r # None)

\* the size test that knows lists only
SizeOfListsOnly(target) ==
    IF IsRaise(target) THEN target
    ELSE IF IsList(target) THEN PyInt(PyLen(target))
    ELSE PyInt(0)

\* isinstance(target, (list, dict, str)): len(target), otherwise 0
SizeOf(target) ==
    IF IsRaise(target) THEN target
    ELSE IF IsList(target) \/ IsDict(target) \/ IsStr(target) THEN PyInt(PyLen(target))
    ELSE PyInt(0)

\* firefly_json_size that measures the text itself when it does not parse
SizeOfUnparsedText(d, p) ==
    IF Truthy(p) THEN SizeOf(firefly_json_get(d, p))
    ELSE IF IsStr(d) THEN
        LET parsed == json_loads(d.v) IN
        IF IsRaise(parsed) THEN
            (IF parsed.v = "JSONDecodeError" THEN SizeOf(d) ELSE parsed)
        ELSE SizeOf(parsed)
    ELSE SizeOf(d)

firefly_json_size(d, p) ==
    IF Truthy(p) THEN SizeOf(firefly_json_get(d, p))
    ELSE IF IsStr(d) THEN
        LET parsed == json_loads(d.v) IN
        IF IsRaise(parsed) THEN
            (IF parsed.v = "JSONDecodeError" THEN PyInt(0) ELSE parsed)
        ELSE SizeOf(parsed)
    ELSE SizeOf(d)

\* the isinstance chain with int tested before bool
TypeOfIntBeforeBool(target) ==
    IF IsRaise(target) THEN target
    ELSE IF target = None THEN TypeName("null")
    ELSE IF IsInt(target) THEN TypeName("number")
    ELSE IF IsBool(target) THEN TypeName("boolean")
    ELSE IF IsFloat(target) THEN TypeName("number")
    ELSE IF target.t = "str" THEN TypeName("string")
    ELSE IF target.t = "list" THEN TypeName("array")
    ELSE IF target.t = "dict" THEN TypeName("object")
    ELSE TypeName("unknown")

\* the isinstance chain: None, bool, int, float, str, list, dict, else
TypeOf(target) ==
    IF IsRaise(target) THEN target
    ELSE IF target = None THEN TypeName("null")
    ELSE IF IsBool(target) THEN TypeName("boolean")
    ELSE IF IsInt(target) THEN TypeName("number")
    ELSE IF IsFloat(target) THEN TypeName("number")
    ELSE IF target.t = "str" THEN TypeName("string")
    ELSE IF target.t = "list" THEN TypeName("array")
    ELSE IF target.t = "dict" THEN TypeName("object")
    ELSE TypeName("unknown")

firefly_json_type(d, p) ==
    IF Truthy(p) THEN TypeOf(firefly_json_get(d, p))
    ELSE IF IsStr(d) THEN
        LET parsed == json_loads(d.v) IN
        IF IsRaise(parsed) THEN
            (IF parsed.v = "JSONDecodeError" THEN TypeName("string") ELSE parsed)
        ELSE TypeOf(parsed)
    ELSE TypeOf(d)

---------------------------------------------------------------------------
(* The inputs of a call: the caller's data and the path argument           *)

MaxLen == 2

MaxPathTokens == 3

SeqsUpTo(S, n) == UNION {[1..m -> S] : m \in 0..n}

RECURSIVE Concat(_)
Concat(ss) == IF Len(ss) = 0 THEN <<>> ELSE Head(ss) \o Concat(Tail(ss))

KeyNames == {<<"a">>, <<"z">>}

Scalars == {None, PyInt(1)}

Lists(S) == {PyList(s) : s \in SeqsUpTo(S, MaxLen)}

DistinctKeys(items) ==
    \A i, j \in 1..Len(items) : items[i].k = items[j].k => i = j

Dicts(S) ==
    {PyDict(items) :
        items \in {it \in SeqsUpTo({Item(k, x) : k \in KeyNames, x \in S}, MaxLen) :
                      DistinctKeys(it)}}

\* values of depth at most one
FlatValues ==
    Scalars \cup {PyBool(TRUE), PyFloat(15, 1), PyStr(<<"h", "i">>)}
        \cup Lists(Scalars) \cup Dicts(Scalars)

\* {"x": {"y": {"z": 1}}, "z": 2}
DocXYZ ==
    PyDict(<<Item(<<"x">>, PyDict(<<Item(<<"y">>, PyDict(<<Item(<<"z">>, PyInt(1))>>))>>)),
             Item(<<"z">>, PyInt(2))>>)

\* {"a": {"z": null}, "x": [{"z": 1}, null]} and other nested documents
NestedDocs ==
    { DocXYZ,
      PyDict(<<Item(<<"a">>, PyDict(<<Item(<<"z">>, None)>>)),
               Item(<<"x">>, PyList(<<PyDict(<<Item(<<"z">>, PyInt(1))>>), None>>))>>),
      PyDict(<<Item(<<"a">>, PyList(<<PyList(<<PyInt(1)>>), PyDict(<<Item(<<"z">>, PyBool(FALSE))>>)>>))>>),
      PyList(<<PyDict(<<Item(<<"a">>, PyDict(<<Item(<<"a">>, None)>>))>>),
               PyDict(<<Item(<<"z">>, PyStr(<<"h", "i">>))>>)>>),
      PyDict(<<Item(<<"a", ".", "z">>, PyInt(1)), Item(<<"[">>, PyInt(2)), Item(<<"]">>, PyInt(3))>>),
      \* {"a": 1.5, "z": true}
      PyDict(<<Item(<<"a">>, PyFloat(15, 1)), Item(<<"z">>, PyBool(TRUE))>>),
      \* {"a": {"z": 1}, "a.z": 2}
      PyDict(<<Item(<<"a">>, PyDict(<<Item(<<"z">>, PyInt(1))>>)),
               Item(<<"a", ".", "z">>, PyInt(2))>>),
      \* {"a": [7], "a[0]": 3}
      PyDict(<<Item(<<"a">>, PyList(<<PyInt(7)>>)),
               Item(<<"a", "[", "0", "]">>, PyInt(3))>>) }

\* texts that json.loads accepts
ValidTexts ==
    {
      \* {"a":null}
      <<"{", Quote, "a", Quote, ":", "n", "u", "l", "l", "}">>,
      \* [1, null]
      <<"[", "1", ",", " ", "n", "u", "l", "l", "]">>,
      \* "hi"
      <<Quote, "h", "i", Quote>>,
      \* 10
      <<"1", "0">>,
      \* null
      <<"n", "u", "l", "l">>,
      \*  {"z" : [true]} 
      <<" ", "{", Quote, "z", Quote, " ", ":", " ", "[", "t", "r", "u", "e", "]", "}", " ">>,
      \* {"a":1,"z":{"a":2},"a":null}
      <<"{", Quote, "a", Quote, ":", "1", ",", Quote, "z", Quote, ":", "{", Quote, "a", Quote, ":", "2", "}", ",", Quote, "a", Quote, ":", "n", "u", "l", "l", "}">>
    }

\* texts that json.loads rejects
InvalidTexts ==
    {
      \* (the empty text)
      <<>>,
      \* {
      <<"{">>,
      \* [1,]
      <<"[", "1", ",", "]">>,
      \* {"a":1
      <<"{", Quote, "a", Quote, ":", "1">>,
      \* {a:1}
      <<"{", "a", ":", "1", "}">>,
      \* $.a
      <<"$", ".", "a">>,
      \* 01
      <<"0", "1">>,
      \* nul
      <<"n", "u", "l">>,
      \* [1] 1
      <<"[", "1", "]", " ", "1">>,
      \* "hi
      <<Quote, "h", "i">>
    }

Texts == {PyStr(s) : s \in ValidTexts \cup InvalidTexts}

Inputs == FlatValues \cup NestedDocs \cup Texts

\* the pieces paths are made of
PathTokens ==
    { <<".">>, <<"a">>, <<"z">>, <<"[", "0", "]">>, <<"[", "1", "]">>,
      <<"[", "*", "]">>, <<"[">>, <<"]">> }

TailsUpTo(n) == {Concat(ts) : ts \in SeqsUpTo(PathTokens, n)}

RootedPaths == {<<"$">> \o s : s \in TailsUpTo(MaxPathTokens)}

\* the empty path and paths that do not start with the root marker
UnrootedPaths ==
    TailsUpTo(MaxPathTokens - 1)
        \cup {t \o <<"$">> \o s : t \in PathTokens, s \in TailsUpTo(1)}

\* longer paths: $..a.z, $..a[0], $.a.z, $.a..z, $.a.z., $.a[1].z and
\* $.a[*][1].z
ExamplePaths ==
    { <<"$", ".", ".", "a", ".", "z">>,
      <<"$", ".", ".", "a", "[", "0", "]">>,
      <<"$", ".", "a", ".", "z">>,
      <<"$", ".", "a", ".", ".", "z">>,
      <<"$", ".", "a", ".", "z", ".">>,
      <<"$", ".", "a", "[", "1", "]", ".", "z">>,
      <<"$", ".", "a", "[", "*", "]", "[", "1", "]", ".", "z">> }

\* a path argument: a str, or no argument (the default, None)
Paths == {PyStr(s) : s \in RootedPaths \cup UnrootedPaths \cup ExamplePaths} \cup {None}

\* the path "$.k" of a key k, the path "$..f" of a field name f, the path "$"
KeyPath(k) == PyStr(<<"$", ".">> \o k)

SearchPath(f) == PyStr(<<"$", ".", ".">> \o f)

RootPath == PyStr(<<"$">>)

---------------------------------------------------------------------------
(* The state machine: one call of one operation on the inputs              *)

Init ==
    /\ data \in Inputs
    /\ path \in Paths
    /\ op = "none"
    /\ result = Unset
    /\ frames = <<>>
    /\ console = <<>>

\* one call: the operation runs on the inputs and returns
Call(name, value) ==
    /\ op = "none"
    /\ op' = name
    /\ result' = value
    /\ UNCHANGED <<data, path, frames, console>>

CallPathGet == Call("json_path_get", json_path_get(data, path))

CallGet == Call("firefly_json_get", firefly_json_get(data, path))

CallExists == Call("firefly_json_exists", firefly_json_exists(data, path))

CallSize == Call("firefly_json_size", firefly_json_size(data, path))

CallType == Call("firefly_json_type", firefly_json_type(data, path))

Next == CallPathGet \/ CallGet \/ CallExists \/ CallSize \/ CallType

Spec == Init /\ [][Next]_vars

---------------------------------------------------------------------------
(* The operations on text input: data is a str, parsed by json.loads       *)

\* a JSON integer of one digit more than int() converts
LongNumberText == [i \in 1..(MaxStrDigits + 1) |-> "1"]

TextInputs == Texts \cup {PyStr(LongNumberText)}

TextPaths ==
    { None, PyStr(<<>>), RootPath, KeyPath(<<"a">>), KeyPath(<<"z">>),
      SearchPath(<<"a">>), PyStr(<<"$", "[", "0", "]">>), PyStr(<<"a">>) }

InitText ==
    /\ data \in TextInputs
    /\ path \in TextPaths
    /\ op = "none"
    /\ result = Unset
    /\ frames = <<>>
    /\ console = <<>>

SpecText == InitText /\ [][Next]_vars

---------------------------------------------------------------------------
(* The navigator alone: one call of _navigate_segment                      *)

MaxBracketLen == 2

BracketChars == {"0", "1", "2", "3", "-", "+", "*", "a", " "}

BracketSegments ==
    {<<"[">> \o c \o <<"]">> : c \in SeqsUpTo(BracketChars, MaxBracketLen)}

FieldSegments ==
    KeyNames \cup {<<"x">>, <<"[">>, <<"]">>, <<"[", "0">>, <<"0", "]">>, <<"a", ".", "z">>}

NavSegments == BracketSegments \cup FieldSegments

\* [1, 2, 3], the array of the documented examples
List123 == PyList(<<PyInt(1), PyInt(2), PyInt(3)>>)

NavValues == FlatValues \cup NestedDocs \cup {List123}

InitNav ==
    /\ data \in NavValues
    /\ path \in {PyStr(seg) : seg \in NavSegments}
    /\ op = "none"
    /\ result = Unset
    /\ frames = <<>>
    /\ console = <<>>

CallNavigate == Call("_navigate_segment", _navigate_segment(data, path.v))

NextNav == CallNavigate

SpecNav == InitNav /\ [][NextNav]_vars

---------------------------------------------------------------------------
(* Properties of the evaluator and its operations                          *)

\* the text does not parse as JSON
InvalidText(d) == IsStr(d) /\ json_loads(d.v) = Raise("JSONDecodeError")

\* C1: exists(D, "$.k") is true exactly when the object D has the key k, also
\* when the value bound to k is JSON null.
C1_ExistsIffKeyPresent ==
    (op = "firefly_json_exists" /\ IsDict(data)) =>
        \A k \in KeyNames :
            path = KeyPath(k) => result = PyBool(HasKey(data, k))

\* C2 as stated: for {"x":{"y":{"z":1}},"z":2} and $..z the evaluator returns 1.
C2_NestedMatchFirst ==
    (op = "json_path_get" /\ data = DocXYZ /\ path = SearchPath(<<"z">>)) =>
        result = PyInt(1)

\* C2 amended: for {"x":{"y":{"z":1}},"z":2} and $..z the evaluator returns 2,
\* the value of the top-level key z: an object's own keys are tested before its
\* children are searched.
C2_OwnKeyFirst ==
    (op = "json_path_get" /\ data = DocXYZ /\ path = SearchPath(<<"z">>)) =>
        result = PyInt(2)

C2_Witness ==
    /\ op = "json_path_get"
    /\ data = DocXYZ
    /\ path = SearchPath(<<"z">>)
    /\ result # Unset

\* the first object containing the key f in depth-first pre-order, if any
RECURSIVE FirstMatch(_, _)

RECURSIVE FirstMatchIn(_, _, _)
FirstMatchIn(children, i, f) ==
    IF i > Len(children) THEN [found |-> FALSE]
    ELSE LET m == FirstMatch(children[i], f) IN
         IF m.found THEN m ELSE FirstMatchIn(children, i + 1, f)

FirstMatch(d, f) ==
    IF IsDict(d) THEN
        IF HasKey(d, f) THEN [found |-> TRUE, val |-> DictAt(d, f)]
        ELSE FirstMatchIn(DictValues(d), 1, f)
    ELSE IF IsList(d) THEN FirstMatchIn(d.v, 1, f)
    ELSE [found |-> FALSE]

\* C3: evaluate(D, "$..f") returns the value bound to f in the first object
\* containing f in depth-first pre-order, whatever that value is (JSON null
\* included), and nothing only when no object of D contains f.
C3_FirstPreorderMatch ==
    op = "json_path_get" =>
        \A f \in KeyNames :
            path = SearchPath(f) =>
                LET m == FirstMatch(data, f) IN
                result = IF m.found THEN m.val ELSE None

\* C4: when the path finds nothing (a key the object does not have, or a path
\* that does not start with the root marker) type_of returns "unknown".
C4_AbsentIsUnknown ==
    op = "firefly_json_type" =>
        /\ \A k \in KeyNames :
               (IsDict(data) /\ path = KeyPath(k) /\ ~HasKey(data, k)) =>
                   result = TypeName("unknown")
        /\ (~IsStr(data) /\ Truthy(path) /\ ~StartsWith(path.v, "$")) =>
               result = TypeName("unknown")

\* C5: for every data, value or text, and every path, json_path_get, get,
\* exists, size and type_of return a value of their kind and raise nothing.
C5_NeverRaises ==
    /\ ~IsRaise(result)
    /\ op = "firefly_json_exists" => result.t = "bool"
    /\ op = "firefly_json_size" => result.t = "int"
    /\ op = "firefly_json_type" => result.t = "typename"

\* C6: for a text that is not valid JSON, type_of returns "unknown", with a path
\* and with none.
C6_InvalidTextIsUnknown ==
    (op = "firefly_json_type" /\ InvalidText(data)) => result = TypeName("unknown")

C8_RootReturnsData ==
    path = RootPath =>
        /\ op = "json_path_get" => result = data
        /\ (op = "firefly_json_get" /\ ~IsStr(data)) => result = data

C8_Witness ==
    /\ op = "json_path_get"
    /\ path = RootPath
    /\ IsDict(data) /\ PyLen(data) = 2
    /\ result = data

\* C9: for every data and every path string that is empty or does not start
\* with the root marker, the evaluator returns None (nothing found).
C9_UnrootedPathFindsNothing ==
    (op \in {"json_path_get", "firefly_json_get"}
        /\ IsStr(path) /\ ~StartsWith(path.v, "$")) =>
            result = None

\* the rooted path "$.a" would find the key a
C9_Witness ==
    /\ op = "json_path_get"
    /\ path = PyStr(<<".", "a">>)
    /\ IsDict(data) /\ HasKey(data, <<"a">>) /\ DictAt(data, <<"a">>) # None
    /\ result = None

---------------------------------------------------------------------------
(* Properties of the navigator                                             *)

MaxIndex == 33

\* str(i), the decimal text of an integer
RECURSIVE DecimalText(_)
DecimalText(n) ==
    IF n < 0 THEN <<"-">> \o DecimalText(0 - n)
    ELSE IF n < 10 THEN <<Digits[n + 1]>>
    ELSE Append(DecimalText(n \div 10), Digits[(n % 10) + 1])

IndexSegment(i) == <<"[">> \o DecimalText(i) \o <<"]">>

\* C10: navigating the index segment [i] yields the element at position i when
\* the current value is an array and 0 <= i < length, and None (nothing found)
\* in every other case: i at or beyond the length, i negative, no array.
C10_IndexNavigation ==
    op = "_navigate_segment" =>
        \A i \in (0 - MaxIndex)..MaxIndex :
            path.v = IndexSegment(i) =>
                result = IF IsList(data) /\ 0 <= i /\ i < PyLen(data)
                         THEN data.v[i + 1]
                         ELSE None

\* the last element of [1, 2, 3] is at index 2
C10_Witness ==
    /\ op = "_navigate_segment"
    /\ data = List123
    /\ path.v = IndexSegment(2)
    /\ result = PyInt(3)

\* a segment the navigator reads as a field name: not of the form [...]
IsFieldSegment(segment) ==
    ~(StartsWith(segment, "[") /\ EndsWith(segment, "]"))

\* C11: navigating a field-name segment k yields the value bound to k when
\* the current value is an object that has the key k, and None (nothing
\* found) when it is not an object or has no such key; nothing below the
\* current value is looked at.
C11_FieldNavigation ==
    (op = "_navigate_segment" /\ IsFieldSegment(path.v)) =>
        IF IsDict(data) /\ (\E i \in 1..Len(data.v) : data.v[i].k = path.v)
        THEN \A i \in 1..Len(data.v) :
                 data.v[i].k = path.v => result = data.v[i].val
        ELSE result = None

\* the key z exists only deeper in the document: nothing is found
C11_Witness ==
    /\ op = "_navigate_segment"
    /\ path.v = <<"z">>
    /\ IsDict(data) /\ ~HasKey(data, <<"z">>)
    /\ _recursive_search(data, <<"z">>) # None
    /\ result = None

\* C12: navigating the wildcard segment [*] yields the current value itself
\* when it is an array and None otherwise: one value, never its elements.
C12_WildcardNavigation ==
    (op = "_navigate_segment" /\ path.v = <<"[", "*", "]">>) =>
        result = IF IsList(data) THEN data ELSE None

\* the wildcard on [1, 2, 3] gives [1, 2, 3]
C12_Witness ==
    /\ op = "_navigate_segment"
    /\ path.v = <<"[", "*", "]">>
    /\ data = List123
    /\ result = List123

---------------------------------------------------------------------------
(* Properties of the evaluator and of the derived queries                  *)

\* what is left of a rooted path after the root marker and one optional dot
PathRemainder(p) ==
    LET p1 == DropFirst(p)
    IN  IF StartsWith(p1, ".") THEN DropFirst(p1) ELSE p1

\* a rooted path that is not a recursive search ($..field)
IsPlainPath(p) ==
    /\ IsStr(p) /\ StartsWith(p.v, "$")
    /\ ~StartsWith(PathRemainder(p.v), ".")

\* the left-to-right fold of the navigator over the first n segments
RECURSIVE FoldNavigate(_, _, _)
FoldNavigate(segments, n, start) ==
    IF n = 0 THEN start
    ELSE _navigate_segment(FoldNavigate(segments, n - 1, start), segments[n])

\* C13: for a rooted path that is not a recursive search, json_path_get
\* returns the left-to-right fold of the navigator over the path's segments
\* starting from the data, and None (nothing found) as soon as the fold over
\* some prefix of the segments is None.
C13_EvaluateIsFold ==
    (op = "json_path_get" /\ IsPlainPath(path)) =>
        LET segments == _parse_path_segments(PathRemainder(path.v)) IN
        /\ result = FoldNavigate(segments, Len(segments), data)
        /\ \A n \in 0..Len(segments) :
               FoldNavigate(segments, n, data) = None => result = None

\* the first of two segments finds nothing although the second names a key
\* of the data
C13_Witness ==
    /\ op = "json_path_get"
    /\ path = PyStr(<<"$", "z", ".", "a">>)
    /\ IsDict(data) /\ ~HasKey(data, <<"z">>)
    /\ HasKey(data, <<"a">>) /\ DictAt(data, <<"a">>) # None
    /\ result = None

\* the document a call works on: the data, or what its text parses to
ParsedData(d) == IF IsStr(d) THEN json_loads(d.v) ELSE d

\* the value the path selects in that document, None when the text does not
\* parse
Evaluated(d, p) ==
    LET root == ParsedData(d)
    IN  IF IsRaise(root) THEN None ELSE json_path_get(root, p)

\* C14: for a path beginning with $, firefly_json_size returns the element
\* count of the selected array, the key count of the selected object, the
\* character count of the selected string, and 0 when the selected value is
\* a number, a boolean, null or nothing.
C14_SizeOfSelected ==
    (op = "firefly_json_size" /\ IsStr(path) /\ StartsWith(path.v, "$")) =>
        LET e == Evaluated(data, path)
        IN  result = PyInt(IF e.t \in {"list", "dict", "str"} THEN Len(e.v) ELSE 0)

\* the string "hi" selected in [{"a": {"a": null}}, {"z": "hi"}] has size 2
C14_Witness ==
    /\ op = "firefly_json_size"
    /\ path = PyStr(<<"$", "[", "1", "]", ".", "z">>)
    /\ Evaluated(data, path) = PyStr(<<"h", "i">>)
    /\ result = PyInt(2)

\* the value firefly_json_type classifies: the selected value, or the whole
\* document when no path is given
TypeTarget(d, p) == IF Truthy(p) THEN Evaluated(d, p) ELSE ParsedData(d)

TypeTags == {"null", "boolean", "number", "string", "array", "object", "unknown"}

\* C15: firefly_json_type returns "boolean", never "number", for true and
\* false, "number" for integers and floats, and always one of the seven
\* tags null, boolean, number, string, array, object, unknown.
C15_TypeTags ==
    op = "firefly_json_type" =>
        LET target == TypeTarget(data, path)
        IN  /\ target.t = "bool" => result = TypeName("boolean")
            /\ target.t \in {"int", "float"} => result = TypeName("number")
            /\ result.t = "typename" /\ result.v \in TypeTags

\* the value true selected by a path is a boolean
C15_Witness ==
    /\ op = "firefly_json_type"
    /\ Truthy(path)
    /\ TypeTarget(data, path) = PyBool(TRUE)
    /\ result = TypeName("boolean")

---------------------------------------------------------------------------
(* A session: several calls, one after the other, on the same data.  Each  *)
(* call is recorded in frames with the path it was given and what it       *)
(* returned.                                                               *)

MaxCalls == 3

\* {"a": [[1], {"z": false}]}, "hi" as a JSON text, the text [1, null], ...
SessionInputs ==
    NestedDocs \cup {PyStr(<<Quote, "h", "i", Quote>>),
                     PyStr(<<"[", "1", ",", " ", "n", "u", "l", "l", "]">>),
                     PyStr(<<"h", "i">>)}

SessionPaths == {KeyPath(<<"a">>), SearchPath(<<"z">>), PyStr(<<"a">>)}

InitSession ==
    /\ data \in SessionInputs
    /\ path = None
    /\ op = "none"
    /\ result = Unset
    /\ frames = <<>>
    /\ console = <<>>

\* a call that leaves the caller's data as the container it walked into
SessionCallDestructive(name, p, value) ==
    /\ Len(frames) < MaxCalls
    /\ path' = p
    /\ op' = name
    /\ result' = value
    /\ frames' = Append(frames, [op |-> name, path |-> p, result |-> value])
    /\ data' = IF IsList(value) \/ IsDict(value) THEN value ELSE data
    /\ UNCHANGED console

\* a call that answers from a memo kept per function, whatever the path
SessionCallMemoised(name, p, value) ==
    /\ Len(frames) < MaxCalls
    /\ path' = p
    /\ op' = name
    /\ LET r == IF op = name THEN result ELSE value
       IN  /\ result' = r
           /\ frames' = Append(frames, [op |-> name, path |-> p, result |-> r])
    /\ UNCHANGED <<data, console>>

\* one more call on the same data: the functions assign to their local
\* names only (data = json.loads(data), path = path[1:], current = ...)
SessionCall(name, p, value) ==
    /\ Len(frames) < MaxCalls
    /\ path' = p
    /\ op' = name
    /\ result' = value
    /\ frames' = Append(frames, [op |-> name, path |-> p, result |-> value])
    /\ UNCHANGED <<data, console>>

SessionPathGet ==
    \E p \in SessionPaths : SessionCall("json_path_get", p, json_path_get(data, p))

SessionGet ==
    \E p \in SessionPaths : SessionCall("firefly_json_get", p, firefly_json_get(data, p))

SessionExists ==
    \E p \in SessionPaths : SessionCall("firefly_json_exists", p, firefly_json_exists(data, p))

SessionSize ==
    \E p \in SessionPaths : SessionCall("firefly_json_size", p, firefly_json_size(data, p))

SessionType ==
    \E p \in SessionPaths : SessionCall("firefly_json_type", p, firefly_json_type(data, p))

NextSession ==
    SessionPathGet \/ SessionGet \/ SessionExists \/ SessionSize \/ SessionType

SpecSession == InitSession /\ [][NextSession]_vars

---------------------------------------------------------------------------
(* Concurrent callers: several threads call the public operations on the   *)
(* same data at the same time.  A call runs in steps (entry, one step per  *)
(* segment of the walk, return) and threads interleave between steps.      *)
(* The local variables of a call live in the frame of its thread.          *)

NumThreads == 2

Threads == 1..NumThreads

PublicOps ==
    {"firefly_json_get", "firefly_json_exists", "firefly_json_size", "firefly_json_type"}

\* {"x": {"y": {"z": 1}}, "z": 2} and [{"a": {"a": null}}, {"z": "hi"}]
ThreadInputs ==
    { DocXYZ,
      PyList(<<PyDict(<<Item(<<"a">>, PyDict(<<Item(<<"a">>, None)>>))>>),
               PyDict(<<Item(<<"z">>, PyStr(<<"h", "i">>))>>)>>) }

\* $.x.y, $[1].z and $..z
ThreadPaths ==
    { PyStr(<<"$", ".", "x", ".", "y">>),
      PyStr(<<"$", "[", "1", "]", ".", "z">>),
      SearchPath(<<"z">>) }

IdleFrame ==
    [pc |-> "idle", op |-> "none", path |-> None, segments |-> <<>>, i |-> 1,
     current |-> None, ret |-> Unset, overlapped |-> FALSE]

InitThreads ==
    /\ data \in ThreadInputs
    /\ path = None
    /\ op = "none"
    /\ result = Unset
    /\ frames = [t \in Threads |-> IdleFrame]
    /\ console = <<>>

\* segments, i and current kept in one place shared by all threads, as
\* module-level variables would be
SlotShared(t) == 1

\* where the local variables segments, i and current of the call of thread
\* t are kept: in the thread's own frame
Slot(t) == t

\* some other thread is in the middle of a call
OthersRunning(t) == \E u \in Threads \ {t} : frames[u].pc \in {"loop", "return"}

\* the frame of thread t after a step that leaves its locals as given
Stepped(t, pc, segments, i, current) ==
    LET locals == [frames EXCEPT ![Slot(t)].segments = segments,
                                 ![Slot(t)].i = i,
                                 ![Slot(t)].current = current]
    IN  [locals EXCEPT ![t].pc = pc,
                       ![t].overlapped = frames[t].overlapped \/ OthersRunning(t)]

\* entry of firefly_json_get and of json_path_get, up to the loop
ThreadBegin(t) ==
    /\ frames[t].pc = "idle"
    /\ \E name \in PublicOps, p \in ThreadPaths :
          LET doc == IF IsStr(data) THEN json_loads(data.v) ELSE data
              p2 == PathRemainder(p.v)
              entered == [frames EXCEPT ![t].op = name, ![t].path = p]
              after ==
                  IF IsRaise(doc) THEN Stepped(t, "return", <<>>, 1, None)
                  ELSE IF ~Truthy(p) \/ ~StartsWith(p.v, "$") THEN
                      Stepped(t, "return", <<>>, 1, None)
                  ELSE IF Len(p2) = 0 THEN Stepped(t, "return", <<>>, 1, doc)
                  ELSE IF StartsWith(p2, ".") THEN
                      Stepped(t, "return", <<>>, 1, _recursive_search(doc, DropFirst(p2)))
                  ELSE Stepped(t, "loop", _parse_path_segments(p2), 1, doc)
          IN  frames' = [after EXCEPT ![t].op = name, ![t].path = p]
    /\ UNCHANGED <<data, path, op, result, console>>

\* one iteration of `for segment in segments`
ThreadStep(t) ==
    /\ frames[t].pc = "loop"
    /\ LET locals == frames[Slot(t)] IN
       IF locals.i > Len(locals.segments) THEN
           frames' = Stepped(t, "return", locals.segments, locals.i, locals.current)
       ELSE
           LET next == _navigate_segment(locals.current, locals.segments[locals.i]) IN
           IF next = None THEN
               frames' = Stepped(t, "return", locals.segments, locals.i, None)
           ELSE
               frames' = Stepped(t, "loop", locals.segments, locals.i + 1, next)
    /\ UNCHANGED <<data, path, op, result, console>>

\* what the public operation makes of the value firefly_json_get returned
Finish(name, value) ==
    CASE name = "firefly_json_get" -> value
      [] name = "firefly_json_exists" -> PyBool(value # None)
      [] name = "firefly_json_size" -> SizeOf(value)
      [] name = "firefly_json_type" -> TypeOf(value)

\* the return of the call of thread t
ThreadReturn(t) ==
    /\ frames[t].pc = "return"
    /\ LET ret == Finish(frames[t].op, frames[Slot(t)].current) IN
       /\ frames' = [frames EXCEPT ![t].pc = "done", ![t].ret = ret,
                         ![t].overlapped = frames[t].overlapped \/ OthersRunning(t)]
       /\ op' = frames[t].op
       /\ result' = ret
    /\ UNCHANGED <<data, path, console>>

NextThreads ==
    \E t \in Threads : ThreadBegin(t) \/ ThreadStep(t) \/ ThreadReturn(t)

SpecThreads == InitThreads /\ [][NextThreads]_vars

\* what the operation returns when it is called alone
Alone(name, d, p) ==
    CASE name = "firefly_json_get" -> firefly_json_get(d, p)
      [] name = "firefly_json_exists" -> firefly_json_exists(d, p)
      [] name = "firefly_json_size" -> firefly_json_size(d, p)
      [] name = "firefly_json_type" -> firefly_json_type(d, p)

\* C18: in every interleaving of calls made by concurrent threads on the
\* same data, each call returns what the same call returns when it runs
\* alone.
C18_InterleavedAsAlone ==
    \A t \in Threads :
        frames[t].pc = "done" =>
            frames[t].ret = Alone(frames[t].op, data, frames[t].path)

\* two calls that ran at the same time walked different paths of
\* {"x": {"y": {"z": 1}}, "z": 2}: one found nothing, the other measured
\* the object it reached
C18_Witness ==
    /\ frames[1].pc = "done" /\ frames[2].pc = "done"
    /\ frames[1].overlapped /\ frames[2].overlapped
    /\ frames[1].op = "firefly_json_get" /\ frames[2].op = "firefly_json_size"
    /\ frames[1].path = PyStr(<<"$", "[", "1", "]", ".", "z">>)
    /\ frames[2].path = PyStr(<<"$", ".", "x", ".", "y">>)
    /\ frames[1].ret = None
    /\ frames[2].ret = PyInt(1)

---------------------------------------------------------------------------
(* firefly_runtime/interactive.py, get_user_input: prompt for one value on *)
(* the terminal.  console.typed holds what the user will type, line by     *)
(* line (a str, or KeyboardInterrupt for Ctrl+C), console.read counts the  *)
(* lines taken by input() and console.out lists what was printed.  A retry *)
(* is a recursive call: frames is the stack of the calls in progress.  The *)
(* user sits at a terminal: input() waits while nothing is typed.          *)

\* float(s) for a text of digits with one point, an optional sign and
\* surrounding blanks; digits may be grouped by single underscores.  Texts
\* with an exponent, inf or nan are not among the inputs below.
RECURSIVE FloatNorm(_, _)
FloatNorm(m, e) ==
    IF e > 0 /\ m % 10 = 0 THEN FloatNorm(m \div 10, e - 1) ELSE PyFloat(m, e)

CountDigits(s) == Cardinality({i \in 1..Len(s) : IsDigit(s[i])})

float(s) ==
    LET stripped == RStrip(LStrip(s))
        signed == Len(stripped) > 0 /\ stripped[1] \in {"+", "-"}
        body == IF signed THEN DropFirst(stripped) ELSE stripped
        points == {i \in 1..Len(body) : body[i] = "."}
    IN  IF Cardinality(points) # 1 THEN Raise("ValueError")
        ELSE
            LET dot == CHOOSE i \in points : TRUE
                whole == SubSeq(body, 1, dot - 1)
                frac == SubSeq(body, dot + 1, Len(body))
            IN  IF Len(whole) = 0 /\ Len(frac) = 0 THEN Raise("ValueError")
                ELSE IF Len(whole) > 0 /\ ~WellFormedDigits(whole) THEN Raise("ValueError")
                ELSE IF Len(frac) > 0 /\ ~WellFormedDigits(frac) THEN Raise("ValueError")
                ELSE LET m == DigitsValue(whole \o frac, 0)
                     IN  FloatNorm(IF signed /\ stripped[1] = "-" THEN 0 - m ELSE m,
                                   CountDigits(frac))

\* float(value) if '.' in value else int(value)
ToNumber(value) ==
    IF \E i \in 1..Len(value) : value[i] = "." THEN float(value) ELSE int(value)

\* str.lower() on the letters the inputs below use
Lower(value) == [i \in 1..Len(value) |-> IF value[i] = "Y" THEN "y" ELSE value[i]]

\* value.lower() in ['true', '1', 'yes', 'y']
ToBoolean(value) ==
    PyBool(Lower(value) \in {<<"t", "r", "u", "e">>, <<"1">>, <<"y", "e", "s">>, <<"y">>})

KeyboardInterrupt == Raise("KeyboardInterrupt")

\* sys.exit(code)
Exit(code) == [t |-> "exit", v |-> code]

MaxInputs == 3

\* the lines a user may type: nothing, abc, 42, " 7 ", 4.50, 1e5, ".", Y
InputLines ==
    { <<>>, <<"a", "b", "c">>, <<"4", "2">>, <<" ", "7", " ">>,
      <<"4", ".", "5", "0">>, <<"1", "e", "5">>, <<".">>, <<"Y">> }

Keystrokes == {PyStr(line) : line \in InputLines} \cup {KeyboardInterrupt}

InputTypes == {"text", "number", "boolean"}

InitInput ==
    /\ data \in [t : {"args"}, input_type : InputTypes, required : BOOLEAN]
    /\ path = None
    /\ op = "none"
    /\ result = Unset
    /\ frames = <<[pc |-> "input", val |-> None]>>
    /\ console \in [typed : SeqsUpTo(Keystrokes, MaxInputs), read : {0}, out : {<<>>}]

\* the innermost call of get_user_input and whether it can take a line
Top == frames[Len(frames)]

CanRead ==
    /\ Len(frames) > 0 /\ Top.pc = "input"
    /\ console.read < Len(console.typed)

NextKey == console.typed[console.read + 1]

\* input(prompt) shows the prompt and takes the line; then messages print
Printed(messages) ==
    [console EXCEPT !.read = @ + 1, !.out = @ \o <<"prompt">> \o messages]

\* return get_user_input(prompt, input_type, required): the caller waits
\* for the value of a new call
Retry(message) ==
    /\ console' = Printed(<<message>>)
    /\ frames' = Append([frames EXCEPT ![Len(frames)].pc = "await"],
                        [pc |-> "input", val |-> None])
    /\ UNCHANGED <<data, path, op, result>>

\* return value
Return(value) ==
    /\ console' = Printed(<<>>)
    /\ frames' = [frames EXCEPT ![Len(frames)] = [pc |-> "return", val |-> value]]
    /\ UNCHANGED <<data, path, op, result>>

\* except KeyboardInterrupt: print the message and sys.exit(1)
InputCancelled ==
    /\ CanRead /\ NextKey = KeyboardInterrupt
    /\ console' = Printed(<<"cancelled">>)
    /\ frames' = <<>>
    /\ op' = "get_user_input"
    /\ result' = Exit(1)
    /\ UNCHANGED <<data, path>>

\* if not value: a required field is asked again, otherwise None
InputEmpty ==
    /\ CanRead /\ IsStr(NextKey)
    /\ Len(RStrip(LStrip(NextKey.v))) = 0
    /\ IF data.required THEN Retry("required") ELSE Return(None)

\* input_type == "number": the number, or the message and a new call
InputNumber ==
    /\ CanRead /\ IsStr(NextKey)
    /\ data.input_type = "number"
    /\ LET value == RStrip(LStrip(NextKey.v))
           number == ToNumber(value)
       IN  /\ Len(value) > 0
           /\ IF IsRaise(number) THEN Retry("invalid") ELSE Return(number)

\* input_type == "boolean"
InputBoolean ==
    /\ CanRead /\ IsStr(NextKey)
    /\ data.input_type = "boolean"
    /\ LET value == RStrip(LStrip(NextKey.v))
       IN  Len(value) > 0 /\ Return(ToBoolean(value))

\* any other input_type: the text itself
InputText ==
    /\ CanRead /\ IsStr(NextKey)
    /\ data.input_type \notin {"number", "boolean"}
    /\ LET value == RStrip(LStrip(NextKey.v))
       IN  Len(value) > 0 /\ Return(PyStr(value))

\* a retry whose value is thrown away: the caller falls off its end
RetryResultDropped(value) == None

\* return get_user_input(...): the caller returns what the new call returned
RetryResult(value) == value

\* a call returns: to the call that waits for it, or to the caller of
\* get_user_input
InputReturn ==
    /\ Len(frames) > 0 /\ Top.pc = "return"
    /\ IF Len(frames) = 1 THEN
           /\ frames' = <<>>
           /\ op' = "get_user_input"
           /\ result' = Top.val
       ELSE
           /\ frames' = [SubSeq(frames, 1, Len(frames) - 1)
                            EXCEPT ![Len(frames) - 1] =
                                [pc |-> "return", val |-> RetryResult(Top.val)]]
           /\ UNCHANGED <<op, result>>
    /\ UNCHANGED <<data, path, console>>

NextInput ==
    \/ InputCancelled
    \/ InputEmpty
    \/ InputNumber
    \/ InputBoolean
    \/ InputText
    \/ InputReturn

SpecInput == InitInput /\ [][NextInput]_vars

\* a line typed at a number prompt that get_user_input answers with a
\* message and a new prompt
Reprompted(key) ==
    /\ IsStr(key)
    /\ LET value == RStrip(LStrip(key.v))
       IN  IF Len(value) = 0 THEN data.required ELSE IsRaise(ToNumber(value))

\* a line that is a number
ParsesAsNumber(key) ==
    /\ IsStr(key)
    /\ Len(RStrip(LStrip(key.v))) > 0
    /\ ~IsRaise(ToNumber(RStrip(LStrip(key.v))))

NumberReturned ==
    /\ op = "get_user_input" /\ data.input_type = "number"
    /\ result.t # "exit"

PromptsShown == Cardinality({i \in 1..Len(console.out) : console.out[i] = "prompt"})

\* C19 as stated: get_user_input with input_type "number" returns the
\* numeric value of the first typed line that parses as a number.
C19_FirstParsedReturned ==
    NumberReturned =>
        \A k \in 1..Len(console.typed) :
            (ParsesAsNumber(console.typed[k])
                /\ \A j \in 1..(k - 1) : ~ParsesAsNumber(console.typed[j]))
            => result = ToNumber(RStrip(LStrip(console.typed[k].v)))

\* C19, amended: get_user_input with input_type "number" shows a new prompt
\* after every non-empty line that is no number (and after every empty line
\* when the field is required); the first line it does not answer so ends
\* the call, which returns the line's numeric value, or None when the line
\* is empty; the lines before it do not change the value.
C19_FirstAcceptedReturned ==
    NumberReturned =>
        LET k == console.read IN
        /\ k >= 1
        /\ \A j \in 1..(k - 1) : Reprompted(console.typed[j])
        /\ ~Reprompted(console.typed[k])
        /\ PromptsShown = k
        /\ result = IF ParsesAsNumber(console.typed[k])
                    THEN ToNumber(RStrip(LStrip(console.typed[k].v)))
                    ELSE None

\* abc, 1e5, then 42: two new prompts, and 42 is returned
C19_Witness ==
    /\ NumberReturned
    /\ console.typed = <<PyStr(<<"a", "b", "c">>), PyStr(<<"1", "e", "5">>),
                         PyStr(<<"4", "2">>)>>
    /\ console.out = <<"prompt", "invalid", "prompt", "invalid", "prompt">>
    /\ result = PyInt(42)

---------------------------------------------------------------------------
(* firefly_runtime/interactive.py, execute_rule_interactively: run a rule  *)
(* function on the terminal.  frames holds the one call in progress: its   *)
(* position pc, the index i of the input being collected, the context      *)
(* collected so far and the value the rule function returned.  console.out *)
(* lists what was printed, with "call" marking the call of the rule        *)
(* function.                                                               *)

\* what the user may type during a run: 42, nothing, abc, y, or Ctrl+C
RunKeys ==
    { PyStr(<<"4", "2">>), PyStr(<<>>), PyStr(<<"a", "b", "c">>), PyStr(<<"y">>),
      KeyboardInterrupt }

\* input_definitions: none, one number, a number and a text
RunDefinitions == { <<>>, <<"number">>, <<"number", "text">> }

\* what the rule function does: it returns a dict, it returns a dict that
\* json.dumps cannot print (a key that is a tuple), it raises an Exception,
\* or a KeyboardInterrupt is raised while it runs
RuleOutcomes == {"returns", "returns_unprintable", "raises", "interrupted"}

InitRun ==
    /\ data \in [t : {"args"}, input_definitions : RunDefinitions,
                  constants_need_config : {<<>>, <<"C">>}, rule_function : RuleOutcomes]
    /\ path = None
    /\ op = "none"
    /\ result = Unset
    /\ frames = <<[pc |-> "header", i |-> 1, context |-> <<>>, val |-> None]>>
    /\ console \in [typed : SeqsUpTo(RunKeys, MaxInputs), read : {0}, out : {<<>>}]

At(pc) == Len(frames) = 1 /\ frames[1].pc = pc

HasKeyTyped == console.read < Len(console.typed)

\* the call goes on at position pc, having printed the messages
Goto(pc, messages) ==
    /\ frames' = [frames EXCEPT ![1].pc = pc]
    /\ console' = [console EXCEPT !.out = @ \o messages]
    /\ UNCHANGED <<data, path, op, result>>

\* the call ends: it returns, the process exits, or an exception leaves it
Ends(how, keys, messages) ==
    /\ frames' = <<>>
    /\ console' = [console EXCEPT !.read = @ + keys, !.out = @ \o messages]
    /\ op' = "execute_rule_interactively"
    /\ result' = how
    /\ UNCHANGED <<data, path>>

\* print_firefly_header(rule_name, description, version)
RunHeader ==
    /\ At("header")
    /\ Goto("constants", <<"header">>)

\* if constants_need_config: the warning and the question; Ctrl+C at this
\* input() is not caught
RunConstants ==
    /\ At("constants")
    /\ IF Len(data.constants_need_config) = 0 THEN Goto("inputs", <<>>)
       ELSE /\ HasKeyTyped
            /\ IF NextKey = KeyboardInterrupt THEN
                   Ends(KeyboardInterrupt, 1, <<"warning", "prompt">>)
               ELSE
                   /\ frames' = [frames EXCEPT ![1].pc =
                          IF Lower(RStrip(LStrip(NextKey.v))) \in {<<"y">>, <<"y", "e", "s">>}
                          THEN "constant" ELSE "inputs"]
                   /\ console' = [console EXCEPT !.read = @ + 1,
                                      !.out = @ \o <<"warning", "prompt">>]
                   /\ UNCHANGED <<data, path, op, result>>

\* value = input(f"Enter value for {const}: "); the module has no global
\* named constants, so the value is not stored
RunConstantValue ==
    /\ At("constant")
    /\ HasKeyTyped
    /\ IF NextKey = KeyboardInterrupt THEN Ends(KeyboardInterrupt, 1, <<"prompt">>)
       ELSE /\ frames' = [frames EXCEPT ![1].pc = "inputs"]
            /\ console' = [console EXCEPT !.read = @ + 1,
                               !.out = @ \o <<"prompt", "configured">>]
            /\ UNCHANGED <<data, path, op, result>>

\* if input_definitions: collect_inputs prints its heading; else the note
RunInputs ==
    /\ At("inputs")
    /\ IF Len(data.input_definitions) > 0 THEN Goto("collect", <<"inputs">>)
       ELSE Goto("execute", <<"no_inputs">>)

\* the conversion get_user_input applies to a non-empty line
Convert(input_type, value) ==
    IF input_type = "number" THEN ToNumber(value)
    ELSE IF input_type = "boolean" THEN ToBoolean(value)
    ELSE PyStr(value)

InputName(i) == <<"x", Digits[i + 1]>>

\* collect_inputs: value = get_user_input(...) for the next definition,
\* stored unless it is None.  Ctrl+C exits with status 1; a line that is
\* no number is asked again.
RunCollect ==
    /\ At("collect")
    /\ HasKeyTyped
    /\ LET i == frames[1].i
           input_type == data.input_definitions[i]
           after == IF i < Len(data.input_definitions) THEN "collect" ELSE "execute"
       IN  IF NextKey = KeyboardInterrupt THEN Ends(Exit(1), 1, <<"prompt", "cancelled">>)
           ELSE
               LET value == RStrip(LStrip(NextKey.v))
                   converted == IF Len(value) = 0 THEN None ELSE Convert(input_type, value)
               IN  /\ console' = [console EXCEPT !.read = @ + 1,
                          !.out = @ \o (IF IsRaise(converted) THEN <<"prompt", "invalid">>
                                         ELSE <<"prompt">>)]
                   /\ frames' =
                          IF IsRaise(converted) THEN frames
                          ELSE IF converted = None THEN
                              [frames EXCEPT ![1].i = i + 1, ![1].pc = after]
                          ELSE [frames EXCEPT ![1].i = i + 1, ![1].pc = after,
                                   ![1].context = Append(@, Item(InputName(i), converted))]
                   /\ UNCHANGED <<data, path, op, result>>

\* result = rule_function(context), after the two lines that announce it
RunRule ==
    /\ At("execute")
    /\ LET outcome == data.rule_function IN
       IF outcome = "interrupted" THEN
           \* KeyboardInterrupt is no Exception: nothing catches it
           Ends(KeyboardInterrupt, 0, <<"executing", "call">>)
       ELSE
           /\ frames' = [frames EXCEPT
                  ![1].pc = IF outcome = "raises" THEN "error" ELSE "results",
                  ![1].val = IF outcome = "raises" THEN None
                             ELSE PyDict(frames[1].context)]
           /\ console' = [console EXCEPT !.out = @ \o <<"executing", "call">>]
           /\ UNCHANGED <<data, path, op, result>>

\* json.dumps(result, indent=2, default=str) raises TypeError for a dict
\* with a key that is no str, int, float, bool or None
JsonDumpsRaises == data.rule_function = "returns_unprintable"

\* print_execution_results(result), inside the try block: two headings,
\* then the result as JSON
RunResults ==
    /\ At("results")
    /\ IF JsonDumpsRaises THEN Goto("error", <<"success", "results_heading">>)
       ELSE Goto("footer", <<"success", "results_heading", "results">>)

\* except Exception: the message, the traceback and sys.exit(1)
RunError ==
    /\ At("error")
    /\ Ends(Exit(1), 0, <<"error", "traceback">>)

\* print_firefly_footer(), and the function returns
RunFooter ==
    /\ At("footer")
    /\ Ends(None, 0, <<"footer">>)

NextRun ==
    \/ RunHeader
    \/ RunConstants
    \/ RunConstantValue
    \/ RunInputs
    \/ RunCollect
    \/ RunRule
    \/ RunResults
    \/ RunError
    \/ RunFooter

SpecRun == InitRun /\ [][NextRun]_vars

\* the steps of a run among what was printed, in the order they happened
StepEvents == {"header", "inputs", "call", "results", "footer"}

Steps == SelectSeq(console.out, LAMBDA x : x \in StepEvents)

RuleCalled == \E n \in 1..Len(console.out) : console.out[n] = "call"

CollectStep == IF Len(data.input_definitions) > 0 THEN <<"inputs">> ELSE <<>>

\* C20: a run of execute_rule_interactively that reaches the rule function
\* has, when it ends, performed its steps once each and in this order:
\* header, collection of the inputs (when input definitions are given),
\* call of the rule function, results, footer, when the rule function
\* returned; when the rule function raised an exception, the process exited
\* with status 1 with neither results nor footer printed.
C20_StepsInOrder ==
    (op = "execute_rule_interactively" /\ RuleCalled) =>
        /\ data.rule_function = "raises" =>
               /\ result = Exit(1)
               /\ Steps = <<"header">> \o CollectStep \o <<"call">>
        /\ data.rule_function \in {"returns", "returns_unprintable"} =>
               /\ result = None
               /\ Steps = <<"header">> \o CollectStep \o <<"call", "results", "footer">>

---------------------------------------------------------------------------
(* The segmenter alone: one call of _parse_path_segments on what is left   *)
(* of a path after the root marker.  The result is the list of segments.   *)

MaxSegLen == 5

SegChars == {"a", "b", ".", "[", "]", "1"}

\* a.b[1].c and field[0], besides every text of up to MaxSegLen characters
SegExamples ==
    { <<"a", ".", "b", "[", "1", "]", ".", "c">>,
      <<"f", "i", "e", "l", "d", "[", "0", "]">> }

Remainders == SeqsUpTo(SegChars, MaxSegLen) \cup SegExamples

\* the list of str that _parse_path_segments returns
SegmentList(segments) == PyList([n \in 1..Len(segments) |-> PyStr(segments[n])])

InitSeg ==
    /\ data = None
    /\ path \in {PyStr(r) : r \in Remainders}
    /\ op = "none"
    /\ result = Unset
    /\ frames = <<>>
    /\ console = <<>>

CallSegment ==
    Call("_parse_path_segments", SegmentList(_parse_path_segments(path.v)))

NextSeg == CallSegment

SpecSeg == InitSeg /\ [][NextSeg]_vars

\* The grammar of a path remainder: field names (runs of characters other
\* than . and [) separated by dots, and bracket groups [...] that follow
\* directly or after a dot; the remainder may start with a bracket group.

\* the first position from i on that holds one of the characters, or the
\* position after the end
FirstOf(p, i, chars) ==
    LET hits == {n \in i..Len(p) : p[n] \in chars}
    IN  IF hits = {} THEN Len(p) + 1
        ELSE CHOOSE n \in hits : \A m \in hits : n <= m

NoGrammar == [ok |-> FALSE, segments |-> <<>>]

\* the items of p from position i on, added to segments; start tells that
\* a field name may stand at i without a dot before it
RECURSIVE GrammarItems(_, _, _, _)
GrammarItems(p, i, segments, start) ==
    IF i > Len(p) THEN [ok |-> TRUE, segments |-> segments]
    ELSE IF p[i] = "[" THEN
        LET close == FirstOf(p, i + 1, {"[", "]"})
        IN  IF close > Len(p) \/ p[close] = "[" THEN NoGrammar
            ELSE GrammarItems(p, close + 1, Append(segments, SubSeq(p, i, close)), FALSE)
    ELSE IF p[i] = "." THEN
        IF i = 1 \/ i = Len(p) \/ p[i + 1] = "." THEN NoGrammar
        ELSE GrammarItems(p, i + 1, segments, TRUE)
    ELSE IF ~start THEN NoGrammar
    ELSE
        LET stop == FirstOf(p, i, {".", "["})
        IN  GrammarItems(p, stop, Append(segments, SubSeq(p, i, stop - 1)), FALSE)

GrammarSegments(p) == GrammarItems(p, 1, <<>>, TRUE)

\* C21: for every path remainder that conforms to the grammar, the segmenter
\* emits one segment per field name and one per bracket group, in order,
\* nothing added, dropped or merged; a.b[1].c gives a, b, [1], c; a leading
\* bracket group gives a bracket segment first; the empty remainder gives
\* the empty sequence.
C21_SegmentsFollowGrammar ==
    (op = "_parse_path_segments" /\ GrammarSegments(path.v).ok) =>
        result = SegmentList(GrammarSegments(path.v).segments)

---------------------------------------------------------------------------
(* Properties of bracket contents, of size, of the wildcard and of the     *)
(* recursive search                                                        *)

\* a non-empty run of decimal digits
IsDigitRun(s) == Len(s) > 0 /\ \A n \in 1..Len(s) : IsDigit(s[n])

\* C22: on an array, a bracket segment whose content is neither * nor a
\* non-empty run of decimal digits (empty, letters, a sign, surrounding
\* blanks) yields None (nothing found).
C22_BadBracketFindsNothing ==
    (/\ op = "_navigate_segment"
     /\ IsList(data)
     /\ ~IsFieldSegment(path.v)
     /\ Inner(path.v) # <<"*">>
     /\ ~IsDigitRun(Inner(path.v)))
        => result = None

\* C23: for every path supplied as a string, the empty string and strings
\* without the root marker included, firefly_json_size is 0 whenever the
\* path selects nothing, whatever the size of the data itself.
C23_NothingSelectedIsZero ==
    (op = "firefly_json_size" /\ IsStr(path) /\ Evaluated(data, path) = None)
        => result = PyInt(0)

\* a run of segments as they follow one another in a path: each a dot and
\* a field name, or a bracket group with or without a dot before it
IsSegmentRun(s) ==
    \/ Len(s) = 0
    \/ /\ s[1] = "[" /\ GrammarSegments(s).ok
    \/ /\ s[1] = "." /\ Len(s) > 1 /\ GrammarSegments(Tail(s)).ok

\* the root marker followed by segments; the dot after the marker may be
\* left out
IsPathPrefix(s) ==
    /\ Len(s) > 0 /\ s[1] = "$"
    /\ \/ IsSegmentRun(Tail(s))
       \/ GrammarSegments(Tail(s)).ok

\* the first segment of a run of segments is a field name
StartsWithField(s) == Len(s) > 1 /\ s[1] = "." /\ s[2] # "["

\* C24: what follows a wildcard works on the array as a whole: when a path
\* is P [*] R with P a path that selects an array and R a run of segments,
\* json_path_get returns what it returns for the path P R; when R starts
\* with a field name it returns None (nothing found).
C24_WildcardIsTransparent ==
    (op = "json_path_get" /\ IsStr(path)) =>
        \A k \in 1..(Len(path.v) - 2) :
            LET P == SubSeq(path.v, 1, k - 1)
                R == SubSeq(path.v, k + 3, Len(path.v))
            IN  (/\ SubSeq(path.v, k, k + 2) = <<"[", "*", "]">>
                 /\ IsPathPrefix(P) /\ IsSegmentRun(R)
                 /\ IsList(json_path_get(data, PyStr(P))))
                => /\ result = json_path_get(data, PyStr(P \o R))
                   /\ StartsWithField(R) => result = None

\* $.a[*][1].z on {"a": [[1], {"z": false}]} gives false, as $.a[1].z does
C24_Witness ==
    /\ op = "json_path_get"
    /\ path = PyStr(<<"$", ".", "a", "[", "*", "]", "[", "1", "]", ".", "z">>)
    /\ IsDict(data) /\ IsList(DictGet(data, <<"a">>))
    /\ result = PyBool(FALSE)

\* the values bound to the key f in d or in anything nested in d
RECURSIVE ValuesUnder(_, _)
ValuesUnder(d, f) ==
    IF IsDict(d)
    THEN {d.v[i].val : i \in {j \in 1..Len(d.v) : d.v[j].k = f}}
         \cup UNION {ValuesUnder(d.v[i].val, f) : i \in 1..Len(d.v)}
    ELSE IF IsList(d)
    THEN UNION {ValuesUnder(d.v[i], f) : i \in 1..Len(d.v)}
    ELSE {}

\* C25: in a path that starts with $.. everything after the second dot is
\* one field name: json_path_get returns a value bound to a key with exactly
\* that name somewhere in the data, and None when no key has that name; for
\* $..a.z and $..a[0] the keys are a.z and a[0], and the value under a is
\* not navigated.
C25_RecursiveTextIsOneName ==
    (/\ op = "json_path_get" /\ IsStr(path)
     /\ Len(path.v) >= 3 /\ SubSeq(path.v, 1, 3) = <<"$", ".", ".">>)
    => LET f == SubSeq(path.v, 4, Len(path.v))
       IN  IF ValuesUnder(data, f) = {} THEN result = None
           ELSE result \in ValuesUnder(data, f)

\* $..a.z on {"a": {"z": 1}, "a.z": 2} gives 2, the value of the key a.z
C25_Witness ==
    /\ op = "json_path_get"
    /\ path = PyStr(<<"$", ".", ".", "a", ".", "z">>)
    /\ IsDict(data) /\ DictGet(data, <<"a">>) = PyDict(<<Item(<<"z">>, PyInt(1))>>)
    /\ result = PyInt(2)

\* d and every value nested in d
RECURSIVE SubValues(_)
SubValues(d) ==
    {d} \cup
    (IF IsDict(d) THEN UNION {SubValues(d.v[i].val) : i \in 1..Len(d.v)}
     ELSE IF IsList(d) THEN UNION {SubValues(d.v[i]) : i \in 1..Len(d.v)}
     ELSE {})

\* C27: whatever json_path_get returns, other than None for nothing found,
\* is the data itself or a value nested in it; it never returns a value it
\* built.
C27_ResultIsPartOfData ==
    (op = "json_path_get" /\ result # None) => result \in SubValues(data)

\* a value two levels down is returned
C27_Witness ==
    /\ op = "json_path_get"
    /\ result # None /\ result # data
    /\ \E i \in 1..Len(data.v) :
          IsDict(data) /\ result \in SubValues(data.v[i].val) \ {data.v[i].val}

\* the character c occurs in s
Contains(s, c) == \E n \in 1..Len(s) : s[n] = c

\* C28: every segment that _parse_path_segments returns and that is looked
\* up as a field name (it is not a bracket group) contains neither a dot
\* nor an opening bracket; so a[0 gives no segment with [ in it.
C28_FieldSegmentsArePlain ==
    op = "_parse_path_segments" =>
        \A n \in 1..Len(result.v) :
            IsFieldSegment(result.v[n].v) =>
                /\ ~Contains(result.v[n].v, ".")
                /\ ~Contains(result.v[n].v, "[")

\* position k of s lies inside brackets: a [ comes before it with no ]
\* between the two
InsideBrackets(s, k) ==
    \E i \in 1..(k - 1) :
        s[i] = "[" /\ \A j \in (i + 1)..(k - 1) : s[j] # "]"

\* s from position i on, without its dots outside brackets
RECURSIVE DotsRemoved(_, _)
DotsRemoved(s, i) ==
    IF i > Len(s) THEN <<>>
    ELSE IF s[i] = "." /\ ~InsideBrackets(s, i) THEN DotsRemoved(s, i + 1)
    ELSE <<s[i]>> \o DotsRemoved(s, i + 1)

\* s without its position k
Without(s, k) == SubSeq(s, 1, k - 1) \o SubSeq(s, k + 1, Len(s))

\* C29: for a rooted path that is not a recursive search, no segment of
\* the path is empty, the segments joined end to end are the path's
\* remainder without its dots outside brackets, and a dot outside brackets
\* that another dot follows, or that ends the path, changes nothing:
\* json_path_get returns what it returns for the path without that dot
\* ($.a..z and $.a.z. give what $.a.z gives).
C29_NoEmptySegment ==
    (op = "json_path_get" /\ IsPlainPath(path)) =>
        LET remainder == PathRemainder(path.v)
            segments == _parse_path_segments(remainder)
        IN  /\ \A n \in 1..Len(segments) : Len(segments[n]) > 0
            /\ Concat(segments) = DotsRemoved(remainder, 1)
            /\ \A k \in 2..Len(path.v) :
                   (/\ path.v[k] = "." /\ ~InsideBrackets(path.v, k)
                    /\ (k = Len(path.v) \/ path.v[k + 1] = "."))
                   => result = json_path_get(data, PyStr(Without(path.v, k)))

\* $.a..z on {"a": {"z": 1}, "a.z": 2} gives 1
C29_Witness ==
    /\ op = "json_path_get"
    /\ path = PyStr(<<"$", ".", "a", ".", ".", "z">>)
    /\ IsDict(data) /\ HasKey(data, <<"a", ".", "z">>)
    /\ result = PyInt(1)

\* C30: the dot after the root marker may be left out: for a path $R
\* whose R does not begin with a dot json_path_get returns what it returns
\* for $.R, and for $. it returns the data, as for $.
C30_RootDotOptional ==
    (op = "json_path_get" /\ IsStr(path) /\ StartsWith(path.v, "$")) =>
        LET R == DropFirst(path.v)
        IN  /\ ~StartsWith(R, ".") =>
                  result = json_path_get(data, PyStr(<<"$", ".">> \o R))
            /\ path.v = <<"$", ".">> => result = data

\* $a on a dict with the key a gives the value $.a gives
C30_Witness ==
    /\ op = "json_path_get"
    /\ path = PyStr(<<"$", "a">>)
    /\ IsDict(data) /\ HasKey(data, <<"a">>)
    /\ result = DictGet(data, <<"a">>) /\ result # None

---------------------------------------------------------------------------
(* One call of json_path_get, step by step: the strip of the root marker,  *)
(* the character loop of _parse_path_segments, the segment loop of         *)
(* json_path_get, and the calls and returns of _recursive_search.  The     *)
(* frame keeps the local variables of the call and three logs: the         *)
(* positions of the characters read, the indexes of the segments           *)
(* navigated and the places of the nodes searched.                         *)

EvalInputs ==
    { DocXYZ,
      PyInt(1),
      \* {"a": [[1], {"z": false}]}
      PyDict(<<Item(<<"a">>, PyList(<<PyList(<<PyInt(1)>>),
                                      PyDict(<<Item(<<"z">>, PyBool(FALSE))>>)>>))>>),
      \* [{"a": {"a": null}}, {"z": "hi"}]
      PyList(<<PyDict(<<Item(<<"a">>, PyDict(<<Item(<<"a">>, None)>>))>>),
               PyDict(<<Item(<<"z">>, PyStr(<<"h", "i">>))>>)>>),
      \* {"a": {"z": 1}, "a.z": 2}
      PyDict(<<Item(<<"a">>, PyDict(<<Item(<<"z">>, PyInt(1))>>)),
               Item(<<"a", ".", "z">>, PyInt(2))>>),
      \* [[], [[]]]
      PyList(<<PyList(<<>>), PyList(<<PyList(<<>>)>>)>>) }

\* "", a.z, $, $., $..z, $..a, $..q, $.a.z, $.x.y, $[1].z, $.a[1].z,
\* $.a[*][1].z, $.a[0 and $.a..z.
EvalPaths ==
    { PyStr(<<>>),
      PyStr(<<"a", ".", "z">>),
      PyStr(<<"$">>),
      PyStr(<<"$", ".">>),
      PyStr(<<"$", ".", ".", "z">>),
      PyStr(<<"$", ".", ".", "a">>),
      PyStr(<<"$", ".", ".", "q">>),
      PyStr(<<"$", ".", "a", ".", "z">>),
      PyStr(<<"$", ".", "x", ".", "y">>),
      PyStr(<<"$", "[", "1", "]", ".", "z">>),
      PyStr(<<"$", ".", "a", "[", "1", "]", ".", "z">>),
      PyStr(<<"$", ".", "a", "[", "*", "]", "[", "1", "]", ".", "z">>),
      PyStr(<<"$", ".", "a", "[", "0">>),
      PyStr(<<"$", ".", "a", ".", ".", "z", ".">>) }

\* the locals of a call that has not started
EvalFrame ==
    [pc |-> "begin", i |-> 1, segments |-> <<>>, current |-> <<>>,
     in_brackets |-> FALSE, n |-> 1, value |-> None, stack |-> <<>>,
     ret |-> Unset, read |-> <<>>, navigated |-> <<>>, visited |-> <<>>]

InitEval ==
    /\ data \in EvalInputs
    /\ path \in EvalPaths
    /\ op = "none"
    /\ result = Unset
    /\ frames = EvalFrame
    /\ console = <<>>

\* return value: the call is over
EvalReturn(value) ==
    /\ op' = "json_path_get"
    /\ result' = value

\* json_path_get up to the choice between root, search and navigation
EvalBegin ==
    /\ frames.pc = "begin"
    /\ IF ~Truthy(path) \/ ~StartsWith(path.v, "$") THEN
           /\ frames' = [frames EXCEPT !.pc = "done"]
           /\ EvalReturn(None)
       ELSE IF Len(PathRemainder(path.v)) = 0 THEN
           /\ frames' = [frames EXCEPT !.pc = "done"]
           /\ EvalReturn(data)
       ELSE IF StartsWith(PathRemainder(path.v), ".") THEN
           /\ frames' = [frames EXCEPT !.pc = "search",
                             !.stack = <<[node |-> data, at |-> <<>>, k |-> 0]>>]
           /\ UNCHANGED <<op, result>>
       ELSE
           /\ frames' = [frames EXCEPT !.pc = "segment"]
           /\ UNCHANGED <<op, result>>
    /\ UNCHANGED <<data, path, console>>

\* variant: an opening bracket is looked at twice, first to note that a
\* bracket is open and then to start the segment
SegmentStepRereads ==
    /\ frames.pc = "segment"
    /\ frames.i <= Len(PathRemainder(path.v))
    /\ LET char == PathRemainder(path.v)[frames.i]
           closed == IF Len(frames.current) > 0
                     THEN Append(frames.segments, frames.current)
                     ELSE frames.segments
           seen == [frames EXCEPT !.read = Append(frames.read, frames.i)]
           taken == [seen EXCEPT !.i = frames.i + 1]
       IN  frames' =
             IF char = "[" /\ ~frames.in_brackets THEN
                 [seen EXCEPT !.in_brackets = TRUE]
             ELSE IF char = "[" THEN
                 [taken EXCEPT !.segments = closed, !.current = <<char>>]
             ELSE IF char = "]" THEN
                 [taken EXCEPT !.segments = Append(frames.segments,
                                                   Append(frames.current, char)),
                               !.current = <<>>, !.in_brackets = FALSE]
             ELSE IF char = "." /\ ~frames.in_brackets THEN
                 [taken EXCEPT !.segments = closed, !.current = <<>>]
             ELSE
                 [taken EXCEPT !.current = Append(frames.current, char)]
    /\ UNCHANGED <<data, path, op, result, console>>

\* one iteration of `for char in path`
SegmentStep ==
    /\ frames.pc = "segment"
    /\ frames.i <= Len(PathRemainder(path.v))
    /\ LET char == PathRemainder(path.v)[frames.i]
           closed == IF Len(frames.current) > 0
                     THEN Append(frames.segments, frames.current)
                     ELSE frames.segments
           taken == [frames EXCEPT !.i = frames.i + 1,
                                   !.read = Append(frames.read, frames.i)]
       IN  frames' =
             IF char = "[" THEN
                 [taken EXCEPT !.segments = closed, !.current = <<char>>,
                               !.in_brackets = TRUE]
             ELSE IF char = "]" THEN
                 [taken EXCEPT !.segments = Append(frames.segments,
                                                   Append(frames.current, char)),
                               !.current = <<>>, !.in_brackets = FALSE]
             ELSE IF char = "." /\ ~frames.in_brackets THEN
                 [taken EXCEPT !.segments = closed, !.current = <<>>]
             ELSE
                 [taken EXCEPT !.current = Append(frames.current, char)]
    /\ UNCHANGED <<data, path, op, result, console>>

\* the end of the character loop: the last segment, and the start of the
\* segment loop at the data
SegmentEnd ==
    /\ frames.pc = "segment"
    /\ frames.i > Len(PathRemainder(path.v))
    /\ frames' = [frames EXCEPT
                    !.pc = "navigate",
                    !.segments = IF Len(frames.current) > 0
                                 THEN Append(frames.segments, frames.current)
                                 ELSE frames.segments,
                    !.current = <<>>,
                    !.n = 1,
                    !.value = data]
    /\ UNCHANGED <<data, path, op, result, console>>

\* one iteration of `for segment in segments`, or its end
NavigateStep ==
    /\ frames.pc = "navigate"
    /\ IF frames.n > Len(frames.segments) THEN
           /\ frames' = [frames EXCEPT !.pc = "done"]
           /\ EvalReturn(frames.value)
       ELSE LET next == _navigate_segment(frames.value, frames.segments[frames.n])
                gone == [frames EXCEPT !.navigated = Append(frames.navigated, frames.n),
                                       !.value = next]
            IN  IF next = None THEN
                    /\ frames' = [gone EXCEPT !.pc = "done"]
                    /\ EvalReturn(None)
                ELSE
                    /\ frames' = [gone EXCEPT !.n = frames.n + 1]
                    /\ UNCHANGED <<op, result>>
    /\ UNCHANGED <<data, path, console>>

\* the field name of a recursive search: the text after the two dots
SearchField == DropFirst(PathRemainder(path.v))

\* the values a call of _recursive_search loops over
Children(node) ==
    IF IsDict(node) THEN [i \in 1..Len(node.v) |-> node.v[i].val]
    ELSE IF IsList(node) THEN node.v
    ELSE <<>>

\* the stack without its top call
Popped == SubSeq(frames.stack, 1, Len(frames.stack) - 1)

\* the top call of _recursive_search starts: the test for the field
SearchEnter ==
    /\ frames.pc = "search" /\ frames.ret = Unset
    /\ LET top == frames.stack[Len(frames.stack)]
           here == [frames EXCEPT !.visited = Append(frames.visited, top.at)]
       IN  /\ top.k = 0
           /\ frames' =
                IF IsDict(top.node) /\ HasKey(top.node, SearchField) THEN
                    [here EXCEPT !.stack = Popped,
                                 !.ret = DictGet(top.node, SearchField)]
                ELSE
                    [here EXCEPT !.stack[Len(frames.stack)].k = 1]
    /\ UNCHANGED <<data, path, op, result, console>>

\* the loop of the top call: the call for the next value, or return None
\* after the last
SearchLoop ==
    /\ frames.pc = "search" /\ frames.ret = Unset
    /\ LET depth == Len(frames.stack)
           top == frames.stack[depth]
       IN  /\ top.k > 0
           /\ frames' =
                IF top.k > Len(Children(top.node)) THEN
                    [frames EXCEPT !.stack = Popped, !.ret = None]
                ELSE
                    [frames EXCEPT
                       !.stack = Append([frames.stack EXCEPT ![depth].k = top.k + 1],
                                        [node |-> Children(top.node)[top.k],
                                         at |-> Append(top.at, top.k),
                                         k |-> 0])]
    /\ UNCHANGED <<data, path, op, result, console>>

\* a call has returned: the caller returns the result too unless it is
\* None, and json_path_get returns what the first call returned
SearchResume ==
    /\ frames.pc = "search" /\ frames.ret # Unset
    /\ IF Len(frames.stack) = 0 THEN
           /\ frames' = [frames EXCEPT !.pc = "done"]
           /\ EvalReturn(frames.ret)
       ELSE
           /\ frames' = IF frames.ret # None
                        THEN [frames EXCEPT !.stack = Popped]
                        ELSE [frames EXCEPT !.ret = Unset]
           /\ UNCHANGED <<op, result>>
    /\ UNCHANGED <<data, path, console>>

NextEval ==
    \/ EvalBegin
    \/ SegmentStep
    \/ SegmentEnd
    \/ NavigateStep
    \/ SearchEnter
    \/ SearchLoop
    \/ SearchResume

\* the interpreter runs a call that can take a step
SpecEval == InitEval /\ [][NextEval]_vars /\ WF_vars(NextEval)

\* no entry of the log s occurs twice
NoRepeat(s) == \A m, n \in 1..Len(s) : s[m] = s[n] => m = n

\* C26: a call of json_path_get comes to an end, and on the way every
\* character of the path's remainder is read once (none twice, and all of
\* them by the time navigation starts), no segment is navigated twice and
\* no more segments are navigated than there are, and no node of the data
\* is searched twice.
C26_EvaluateTerminates ==
    /\ [](/\ NoRepeat(frames.read)
          /\ frames.pc = "navigate" =>
                 frames.read = [k \in 1..Len(PathRemainder(path.v)) |-> k]
          /\ NoRepeat(frames.navigated)
          /\ Len(frames.navigated) <= Len(frames.segments)
          /\ NoRepeat(frames.visited))
    /\ <>(frames.pc = "done")

\* $..z on [{"a": {"a": null}}, {"z": "hi"}] ends with "hi" after the
\* search of five nodes
C26_Witness ==
    /\ frames.pc = "done"
    /\ op = "json_path_get"
    /\ path = PyStr(<<"$", ".", ".", "z">>)
    /\ result = PyStr(<<"h", "i">>)
    /\ Len(frames.visited) = 5

====
